---- MODULE Spec2Model ----
(***************************************************************************)
(* A model of setup-ds-action (src/src/index.ts): one run of the action,   *)
(* from reading its inputs to the end of run().                            *)
(*                                                                         *)
(* Strings are sequences of atoms.  An atom is either one character that   *)
(* string operations look at (" ", ",", "~", "/", "\\") or an opaque run   *)
(* of other characters ("latest", "v1.2.3", "ds-").  Concatenation is \o,  *)
(* the empty string is <<>>.                                               *)
(***************************************************************************)
EXTENDS Integers, Sequences, FiniteSets, TLC

\* ------------------------------------------------------------------ bounds

\* Longest 'plugins' input string explored, in atoms.
MaxLen == 5

\* ----------------------------------------------------------------- strings

Whitespace == {" "}

RECURSIVE TrimStart(_)
TrimStart(s) ==
  IF s # <<>> /\ Head(s) \in Whitespace THEN TrimStart(Tail(s)) ELSE s

RECURSIVE TrimEnd(_)
TrimEnd(s) ==
  IF s # <<>> /\ s[Len(s)] \in Whitespace
  THEN TrimEnd(SubSeq(s, 1, Len(s) - 1))
  ELSE s

\* String.prototype.trim
Trim(s) == TrimEnd(TrimStart(s))

\* index of the first atom of s equal to d, 0 when there is none
IndexOf(s, d) ==
  IF \E i \in 1..Len(s) : s[i] = d
  THEN CHOOSE i \in 1..Len(s) : s[i] = d /\ \A j \in 1..(i - 1) : s[j] # d
  ELSE 0

\* index of the last atom of s that is in ds, 0 when there is none
LastIndexIn(s, ds) ==
  IF \E i \in 1..Len(s) : s[i] \in ds
  THEN CHOOSE i \in 1..Len(s) : s[i] \in ds /\ \A j \in (i + 1)..Len(s) : s[j] \notin ds
  ELSE 0

\* String.prototype.split(d): "" splits into [""]
RECURSIVE Split(_, _)
Split(s, d) ==
  LET i == IndexOf(s, d)
  IN IF i = 0
     THEN <<s>>
     ELSE <<SubSeq(s, 1, i - 1)>> \o Split(SubSeq(s, i + 1, Len(s)), d)

\* Array.prototype.filter(p => p) after map(p => p.trim())
RECURSIVE TrimAndKeep(_)
TrimAndKeep(ps) ==
  IF ps = <<>> THEN <<>>
  ELSE LET p == Trim(Head(ps))
       IN (IF p # <<>> THEN <<p>> ELSE <<>>) \o TrimAndKeep(Tail(ps))

\* all strings over alphabet A of length at most n
RECURSIVE StringsUpTo(_, _)
StringsUpTo(A, n) ==
  IF n = 0 THEN {<<>>}
  ELSE LET shorter == StringsUpTo(A, n - 1)
       IN shorter \cup {Append(s, a) : s \in shorter, a \in A}

\* ------------------------------------------------------------ program text

OWNER == <<"delivery-station">>
REPO == <<"ds">>
LATEST == <<"latest">>
TOOL == <<"ds">>


\* ------------------------------------------------------------- environment

\* The run's surroundings, fixed for one run: the operating system and CPU,
\* the action's raw inputs (INPUT_* variables), GITHUB_TOKEN and APPDATA (<<>>
\* when unset), and the tool cache's content when the run starts.
VARIABLE env

\* os.platform(), os.arch()
osPlatform == env.platform
osArch == env.arch

\* path.sep
Sep == IF osPlatform = "win32" THEN "\\" ELSE "/"
Seps == IF osPlatform = "win32" THEN {"\\", "/"} ELSE {"/"}

\* os.homedir(), process.cwd()
osHomedir ==
  IF osPlatform = "win32"
  THEN <<"C:", "\\", "Users", "\\", "runner">>
  ELSE <<"/", "home", "/", "runner">>
processCwd ==
  IF osPlatform = "win32" THEN <<"D:", "\\", "work">> ELSE <<"/", "work">>

\* path.join(a, b): an empty segment is dropped
pathJoin(a, b) == IF b = <<>> THEN a ELSE IF a = <<>> THEN b ELSE a \o <<Sep>> \o b

pathIsAbsolute(p) ==
  /\ p # <<>>
  /\ \/ Head(p) \in Seps
     \/ osPlatform = "win32" /\ Len(p) >= 2 /\ p[1] \in {"C:", "D:"} /\ p[2] \in Seps

\* path.resolve(p): an absolute path stays, a relative one is taken from the
\* working directory (the inputs explored hold no "." or ".." segment)
pathResolve(p) == IF pathIsAbsolute(p) THEN p ELSE pathJoin(processCwd, p)

\* path.dirname(p)
pathDirname(p) ==
  LET i == LastIndexIn(p, Seps)
  IN IF i = 0 THEN <<".">>
     ELSE IF i = 1 THEN <<p[1]>>
     ELSE SubSeq(p, 1, i - 1)

\* core.getInput(name): the raw input with surrounding whitespace trimmed,
\* the empty string when the input is not given
getInput(name) == Trim(env.input[name])

\* ---------------------------------------------------------- pure functions

\* expandHome (index.ts 26-37)
expandHome(input) ==
  IF input = <<>> THEN input
  ELSE IF input = <<"~">> THEN osHomedir
  ELSE IF Len(input) >= 2 /\ input[1] = "~" /\ input[2] \in {"/", "\\"}
       THEN pathJoin(osHomedir, SubSeq(input, 3, Len(input)))
  ELSE input

\* resolveConfigPath (index.ts 40-55): [ok, path, err]; ok = FALSE is the throw
resolveConfigPath(providedPath) ==
  IF providedPath # <<>> /\ Trim(providedPath) # <<>>
  THEN [ok |-> TRUE, path |-> pathResolve(expandHome(Trim(providedPath))), err |-> <<>>]
  ELSE IF osPlatform = "win32"
       THEN IF env.APPDATA = <<>>
            THEN [ok |-> FALSE, path |-> <<>>,
                  err |-> <<"APPDATA environment variable is not set; cannot resolve DS config path">>]
            ELSE [ok |-> TRUE,
                  path |-> pathJoin(pathJoin(env.APPDATA, <<"ds">>), <<"config.yaml">>),
                  err |-> <<>>]
       ELSE [ok |-> TRUE,
             path |-> pathJoin(pathJoin(pathJoin(osHomedir, <<".config">>), <<"ds">>),
                               <<"config.yaml">>),
             err |-> <<>>]

NoInfo == [ok |-> FALSE, fileName |-> <<>>, binaryName |-> <<>>, ext |-> <<>>, err |-> <<>>]

\* getPlatformInfo with an architecture switch that has no default case
getPlatformInfo_anyArch ==
  LET osPart == IF osPlatform = "win32" THEN "windows" ELSE osPlatform
      ext == IF osPlatform = "win32" THEN "zip" ELSE "tar.gz"
      archPart == IF osArch = "x64" THEN "amd64" ELSE "arm64"
  IN IF osPlatform \notin {"linux", "darwin", "win32"}
     THEN [NoInfo EXCEPT !.err = <<"Unsupported platform: ", osPlatform>>]
     ELSE [ok |-> TRUE,
           fileName |-> <<"ds-", osPart, "-", archPart, ".", ext>>,
           binaryName |-> IF osPlatform = "win32" THEN <<"ds.exe">> ELSE <<"ds">>,
           ext |-> <<ext>>,
           err |-> <<>>]

\* getPlatformInfo (index.ts 75-117): [ok, fileName, binaryName, ext, err];
\* ok = FALSE is the throw, the operating system being looked at first
getPlatformInfo ==
  LET osKnown == osPlatform \in {"linux", "darwin", "win32"}
      osPart == IF osPlatform = "win32" THEN "windows" ELSE osPlatform
      ext == IF osPlatform = "win32" THEN "zip" ELSE "tar.gz"
      archKnown == osArch \in {"x64", "arm64"}
      archPart == IF osArch = "x64" THEN "amd64" ELSE "arm64"
  IN IF ~osKnown
     THEN [NoInfo EXCEPT !.err = <<"Unsupported platform: ", osPlatform>>]
     ELSE IF ~archKnown
     THEN [NoInfo EXCEPT !.err = <<"Unsupported architecture: ", osArch>>]
     ELSE [ok |-> TRUE,
           fileName |-> <<"ds-", osPart, "-", archPart, ".", ext>>,
           binaryName |-> IF osPlatform = "win32" THEN <<"ds.exe">> ELSE <<"ds">>,
           ext |-> <<ext>>,
           err |-> <<>>]

\* the release asset's address (index.ts 154)
downloadUrl(actualVersion, fileName) ==
  <<"https://github.com/">> \o OWNER \o <<"/">> \o REPO
    \o <<"/releases/download/">> \o actualVersion \o <<"/">> \o fileName

\* parsePlugins without the filter that drops empty entries
parsePlugins_noFilter(pluginsList) ==
  LET parts == Split(pluginsList, ",")
  IN [i \in 1..Len(parts) |-> Trim(parts[i])]

\* the plugin names of a list (index.ts 201)
parsePlugins(pluginsList) == TrimAndKeep(Split(pluginsList, ","))

\* the arguments of one plugin installation (index.ts 208-211)
pluginArgs(plugin, registry) ==
  <<<<"plugin">>, <<"install">>, plugin>>
    \o (IF registry # <<>> THEN <<<<"--registry">>, registry>> ELSE <<>>)


\* ------------------------------------------------------------------- state

VARIABLES
  pc,                \* where run() stands
  inputs,            \* run's constants read from the inputs (229-234)
  info,              \* downloadDS: the PlatformInfo
  actualVersion,     \* downloadDS: the version being installed
  archive,           \* downloadDS: what the downloaded archive holds
  extractedPath,     \* downloadDS: the directory the archive was unpacked to
  dsPath,            \* run: the install directory downloadDS returned
  installedVersion,  \* run: the version downloadDS returned
  targetPath,        \* writeConfigFile: the file being written
  queue,             \* installPlugins: the plugins still to install
  cache,             \* tool cache: version -> directory, for the tool 'ds'
  dirs,              \* directories that may hold the binary: path -> contents
  files,             \* files written by writeConfigFile: path -> content, mode
  madeDirs,          \* directories created by writeConfigFile
  searchPath,        \* PATH additions, first is searched first
  outputs,           \* the action's outputs set so far: name -> value
  secrets,           \* values registered for masking in the logs
  failedMsgs,        \* the messages given to core.setFailed, in order
  log                \* the calls made to the outside, in order

vars == <<env, pc, inputs, info, actualVersion, archive, extractedPath, dsPath,
          installedVersion, targetPath, queue, cache, dirs, files, madeDirs,
          searchPath, outputs, secrets, failedMsgs, log>>

\* ----------------------------------------------------------- explored runs

V1 == <<"v1.2.3">>
V2 == <<"v2.0.0">>

\* the tags the release index may name as the latest release
ReleaseTags == {V1, V2}

Platforms == {"linux", "darwin", "win32", "freebsd"}
Archs == {"x64", "arm64", "ia32"}
VersionInputs == {<<>>, LATEST, V1, <<"LATEST">>}
TokenInputs == {<<>>, <<"tok">>}
EnvTokens == {<<>>, <<"envtok">>}
AppDataDir == <<"C:", "\\", "AppData">>
ConfigInputs == {<<>>, <<" ">>, <<"key: value">>}
ConfigPathInputs ==
  {<<>>, <<" ">>, <<"~">>, <<"~", "/", "ds.yaml">>, <<"/", "etc", "/", "ds.yaml">>,
   <<"ds.yaml">>, <<"~", "ds.yaml">>}
PluginAlphabet == {"a", "b", ",", " "}
RegistryInputs == {<<>>, <<" ">>, <<"reg.example">>}

BaseInput ==
  [version |-> V1, plugins |-> <<"a">>, registry |-> <<>>, token |-> <<"tok">>,
   config |-> <<>>] @@ ("config-path" :> <<>>)
BaseEnv ==
  [platform |-> "linux", arch |-> "x64", APPDATA |-> AppDataDir,
   GITHUB_TOKEN |-> <<>>, input |-> BaseInput, cached |-> {V1}, intact |-> TRUE]

\* The environments explored.  Besides what the process can read, an
\* environment says which versions the tool cache holds when the run starts
\* (cached) and whether their directories hold the binary (intact).
\* Three families are explored, each varying one group of inputs over its
\* whole range while the others keep the values of BaseEnv.
InstallEnvs ==
  {[BaseEnv EXCEPT !.platform = p, !.arch = a, !.GITHUB_TOKEN = g,
                   !.input.version = v, !.input.token = t,
                   !.cached = c, !.intact = i] :
     p \in Platforms, a \in Archs, g \in EnvTokens, v \in VersionInputs,
     t \in TokenInputs, c \in SUBSET {V1, V2}, i \in BOOLEAN}

ConfigEnvs ==
  {[BaseEnv EXCEPT !.platform = p, !.APPDATA = ad, !.input.config = c,
                   !.input["config-path"] = cp, !.cached = h] :
     p \in {"linux", "win32"}, ad \in {<<>>, AppDataDir},
     c \in ConfigInputs, cp \in ConfigPathInputs, h \in {{}, {V1}}}

PluginEnvs ==
  {[BaseEnv EXCEPT !.input.plugins = pl, !.input.registry = r] :
     pl \in StringsUpTo(PluginAlphabet, MaxLen), r \in RegistryInputs}

Envs == InstallEnvs \cup ConfigEnvs \cup PluginEnvs

\* the directory the tool cache keeps a version in
cachePath(v) == <<"/toolcache/ds/">> \o v

\* f with key k set to v
Put(f, k, v) == [x \in DOMAIN f \cup {k} |-> IF x = k THEN v ELSE f[x]]

\* the tool cache and its directories as the run finds them
InitialCache(e) == [v \in e.cached |-> cachePath(v)]
InitialDirs(e) ==
  [d \in {cachePath(v) : v \in e.cached} |->
     [hasBinary |-> e.intact, executable |-> e.intact]]

NoInputs ==
  [version |-> <<>>, plugins |-> <<>>, registry |-> <<>>, token |-> <<>>,
   configContent |-> <<>>, configPathInput |-> <<>>]

Init ==
  \E e \in Envs :
    /\ env = e
    /\ pc = "start"
    /\ inputs = NoInputs
    /\ info = NoInfo
    /\ actualVersion = <<>>
    /\ archive = [hasBinary |-> FALSE, executable |-> FALSE]
    /\ extractedPath = <<>>
    /\ dsPath = <<>>
    /\ installedVersion = <<>>
    /\ targetPath = <<>>
    /\ queue = <<>>
    /\ cache = InitialCache(e)
    /\ dirs = InitialDirs(e)
    /\ files = [f \in {} |-> <<>>]
    /\ madeDirs = {}
    /\ searchPath = <<>>
    /\ outputs = [n \in {} |-> <<>>]
    /\ secrets = {}
    /\ failedMsgs = <<>>
    /\ log = <<>>


\* ------------------------------------------------------------ the outside

\* one call to the outside: what was called, with what, and whether it
\* returned (ok) or threw
Ev(op, args, ok) == [op |-> op, args |-> args, ok |-> ok]

\* core.setOutput(name, value)
setOutput(name, value) ==
  /\ outputs' = Put(outputs, name, value)
  /\ log' = Append(log, Ev("setOutput", <<<<name>>, value>>, TRUE))

\* tcFind as a lookup that never finds the entry
tcFind_miss(version) == <<>>

\* tc.find('ds', version): the cached directory, '' when there is none
tcFind(version) == IF version \in DOMAIN cache THEN cache[version] ELSE <<>>

\* where the archive is downloaded and unpacked to
DownloadPath == <<"/tmp/ds-archive">>
ExtractDir == <<"/tmp/ds-extracted">>

\* -------------------------------------------------------------------- run

\* run's catch clause (index.ts 268-271): the error's message goes to
\* core.setFailed and run ends
Fail(msg) ==
  /\ pc' = "failed"
  /\ failedMsgs' = Append(failedMsgs, msg)

\* run reads its inputs (index.ts 229-234) and calls downloadDS
run_getInputs ==
  /\ pc = "start"
  /\ inputs' =
       [version |-> IF getInput("version") # <<>> THEN getInput("version") ELSE LATEST,
        plugins |-> getInput("plugins"),
        registry |-> getInput("registry"),
        token |-> IF getInput("token") # <<>> THEN getInput("token")
                  ELSE env.GITHUB_TOKEN,
        configContent |-> getInput("config"),
        configPathInput |-> getInput("config-path")]
  /\ pc' = "getPlatformInfo"
  /\ UNCHANGED <<env, info, actualVersion, archive, extractedPath, dsPath,
                 installedVersion, targetPath, queue, cache, dirs, files, madeDirs,
                 searchPath, outputs, secrets, failedMsgs, log>>

\* downloadDS resolves the platform (index.ts 135)
downloadDS_getPlatformInfo ==
  /\ pc = "getPlatformInfo"
  /\ \/ /\ getPlatformInfo.ok
        /\ info' = getPlatformInfo
        /\ pc' = "getOctokit"
        /\ UNCHANGED failedMsgs
     \/ /\ ~getPlatformInfo.ok
        /\ Fail(getPlatformInfo.err)
        /\ UNCHANGED info
  /\ UNCHANGED <<env, inputs, actualVersion, archive, extractedPath, dsPath,
                 installedVersion, targetPath, queue, cache, dirs, files, madeDirs,
                 searchPath, outputs, secrets, log>>

\* downloadDS builds the API client (index.ts 138); the library refuses an
\* empty token, which the model allows to throw or not
downloadDS_getOctokit ==
  /\ pc = "getOctokit"
  /\ \/ /\ pc' = "resolveVersion"
        /\ UNCHANGED failedMsgs
     \/ /\ inputs.token = <<>>
        /\ Fail(<<"Parameter token or opts.auth is required">>)
  /\ UNCHANGED <<env, inputs, info, actualVersion, archive, extractedPath, dsPath,
                 installedVersion, targetPath, queue, cache, dirs, files, madeDirs,
                 searchPath, outputs, secrets, log>>

\* getLatestVersion (index.ts 122-129): one call to the release index, which
\* names a tag or fails
getLatestVersion ==
  \/ /\ \E tag \in ReleaseTags : actualVersion' = tag
     /\ log' = Append(log, Ev("getLatestRelease", <<OWNER, REPO>>, TRUE))
     /\ pc' = "find"
     /\ UNCHANGED failedMsgs
  \/ /\ log' = Append(log, Ev("getLatestRelease", <<OWNER, REPO>>, FALSE))
     /\ Fail(<<"getLatestRelease: request failed">>)
     /\ UNCHANGED actualVersion

\* downloadDS_resolveVersion comparing the token without regard to case
downloadDS_resolveVersion_anyCase ==
  /\ pc = "resolveVersion"
  /\ \/ /\ inputs.version \in {LATEST, <<"LATEST">>}
        /\ getLatestVersion
     \/ /\ inputs.version \notin {LATEST, <<"LATEST">>}
        /\ actualVersion' = inputs.version
        /\ pc' = "find"
        /\ UNCHANGED <<failedMsgs, log>>
  /\ UNCHANGED <<env, inputs, info, archive, extractedPath, dsPath,
                 installedVersion, targetPath, queue, cache, dirs, files, madeDirs,
                 searchPath, outputs, secrets>>

\* downloadDS settles the version (index.ts 139)
downloadDS_resolveVersion ==
  /\ pc = "resolveVersion"
  /\ \/ /\ inputs.version = LATEST
        /\ getLatestVersion
     \/ /\ inputs.version # LATEST
        /\ actualVersion' = inputs.version
        /\ pc' = "find"
        /\ UNCHANGED <<failedMsgs, log>>
  /\ UNCHANGED <<env, inputs, info, archive, extractedPath, dsPath,
                 installedVersion, targetPath, queue, cache, dirs, files, madeDirs,
                 searchPath, outputs, secrets>>

\* downloadDS looks the version up in the tool cache (index.ts 144-151)
downloadDS_find ==
  /\ pc = "find"
  /\ LET cachedPath == tcFind(actualVersion)
         found == Ev("find", <<TOOL, actualVersion>>, TRUE)
     IN \/ /\ cachedPath # <<>>
           /\ outputs' = Put(outputs, "cache-hit", <<"true">>)
           /\ log' = log \o <<found, Ev("setOutput", <<<<"cache-hit">>, <<"true">>>>, TRUE)>>
           /\ dsPath' = cachedPath
           /\ installedVersion' = actualVersion
           /\ pc' = "addPath"
        \/ /\ cachedPath = <<>>
           /\ outputs' = Put(outputs, "cache-hit", <<"false">>)
           /\ log' = log \o <<found, Ev("setOutput", <<<<"cache-hit">>, <<"false">>>>, TRUE)>>
           /\ pc' = "download"
           /\ UNCHANGED <<dsPath, installedVersion>>
  /\ UNCHANGED <<env, inputs, info, actualVersion, archive, extractedPath, targetPath, queue,
                 cache, dirs, files, madeDirs, searchPath, secrets, failedMsgs>>

\* downloadDS downloads the release asset (index.ts 153-163); the archive
\* that arrives may or may not hold the binary at its top level
downloadDS_download ==
  /\ pc = "download"
  /\ LET url == downloadUrl(actualVersion, info.fileName)
     IN \/ /\ log' = Append(log, Ev("downloadTool", <<url, inputs.token>>, TRUE))
           /\ \E hb \in BOOLEAN, x \in BOOLEAN :
                archive' = [hasBinary |-> hb, executable |-> hb /\ x]
           /\ pc' = "extract"
           /\ UNCHANGED failedMsgs
        \/ /\ log' = Append(log, Ev("downloadTool", <<url, inputs.token>>, FALSE))
           /\ Fail(<<"Failed to download DS: ", "request failed">>)
           /\ UNCHANGED archive
  /\ UNCHANGED <<env, inputs, info, actualVersion, extractedPath, dsPath,
                 installedVersion, targetPath, queue, cache, dirs, files, madeDirs,
                 searchPath, outputs, secrets>>

\* downloadDS_extract handing the directory on without the look for the binary
downloadDS_extract_noVerify ==
  /\ pc = "extract"
  /\ LET op == IF info.ext = <<"tar.gz">> THEN "extractTar" ELSE "extractZip"
     IN \/ /\ log' = Append(log, Ev(op, <<DownloadPath>>, TRUE))
           /\ extractedPath' = ExtractDir
           /\ dirs' = Put(dirs, ExtractDir, archive)
           /\ pc' = "chmod"
           /\ UNCHANGED failedMsgs
        \/ /\ log' = Append(log, Ev(op, <<DownloadPath>>, FALSE))
           /\ Fail(<<op, ": extraction failed">>)
           /\ UNCHANGED <<extractedPath, dirs>>
  /\ UNCHANGED <<env, inputs, info, actualVersion, archive, dsPath,
                 installedVersion, targetPath, queue, cache, files, madeDirs,
                 searchPath, outputs, secrets>>

\* downloadDS unpacks the archive (index.ts 165-172)
downloadDS_extract ==
  /\ pc = "extract"
  /\ LET op == IF info.ext = <<"tar.gz">> THEN "extractTar" ELSE "extractZip"
     IN \/ /\ log' = Append(log, Ev(op, <<DownloadPath>>, TRUE))
           /\ extractedPath' = ExtractDir
           /\ dirs' = Put(dirs, ExtractDir, archive)
           /\ pc' = "verify"
           /\ UNCHANGED failedMsgs
        \/ /\ log' = Append(log, Ev(op, <<DownloadPath>>, FALSE))
           /\ Fail(<<op, ": extraction failed">>)
           /\ UNCHANGED <<extractedPath, dirs>>
  /\ UNCHANGED <<env, inputs, info, actualVersion, archive, dsPath,
                 installedVersion, targetPath, queue, cache, files, madeDirs,
                 searchPath, outputs, secrets>>

\* downloadDS_verify going on whether or not the binary is there
downloadDS_verify_lenient ==
  /\ pc = "verify"
  /\ log' = Append(log, Ev("existsSync", <<pathJoin(extractedPath, info.binaryName)>>, TRUE))
  /\ pc' = "chmod"
  /\ UNCHANGED <<env, inputs, info, actualVersion, archive, extractedPath, dsPath,
                 installedVersion, targetPath, queue, cache, dirs, files, madeDirs,
                 searchPath, outputs, secrets, failedMsgs>>

\* downloadDS looks for the binary in the unpacked directory (index.ts 174-178)
downloadDS_verify ==
  /\ pc = "verify"
  /\ LET binaryPath == pathJoin(extractedPath, info.binaryName)
     IN /\ log' = Append(log, Ev("existsSync", <<binaryPath>>, TRUE))
        /\ \/ /\ dirs[extractedPath].hasBinary
              /\ pc' = "chmod"
              /\ UNCHANGED failedMsgs
           \/ /\ ~dirs[extractedPath].hasBinary
              /\ Fail(<<"Binary not found at ">> \o binaryPath)
  /\ UNCHANGED <<env, inputs, info, actualVersion, archive, extractedPath, dsPath,
                 installedVersion, targetPath, queue, cache, dirs, files, madeDirs,
                 searchPath, outputs, secrets>>

\* downloadDS makes the binary executable, except on Windows (index.ts 180-183)
downloadDS_chmod ==
  /\ pc = "chmod"
  /\ LET binaryPath == pathJoin(extractedPath, info.binaryName)
     IN \/ /\ osPlatform # "win32"
           /\ log' = Append(log, Ev("chmod", <<<<"+x">>, binaryPath>>, TRUE))
           /\ dirs' = [dirs EXCEPT ![extractedPath].executable = TRUE]
           /\ pc' = "cacheDir"
           /\ UNCHANGED failedMsgs
        \/ /\ osPlatform # "win32"
           /\ log' = Append(log, Ev("chmod", <<<<"+x">>, binaryPath>>, FALSE))
           /\ Fail(<<"chmod: the process failed">>)
           /\ UNCHANGED dirs
        \/ /\ osPlatform = "win32"
           /\ pc' = "cacheDir"
           /\ UNCHANGED <<log, dirs, failedMsgs>>
  /\ UNCHANGED <<env, inputs, info, actualVersion, archive, extractedPath, dsPath,
                 installedVersion, targetPath, queue, cache, files, madeDirs,
                 searchPath, outputs, secrets>>

\* downloadDS puts the directory into the tool cache and returns the cache's
\* directory (index.ts 185-189)
downloadDS_cacheDir ==
  /\ pc = "cacheDir"
  /\ LET args == <<extractedPath, TOOL, actualVersion>>
         cachedPath == cachePath(actualVersion)
     IN \/ /\ log' = Append(log, Ev("cacheDir", args, TRUE))
           /\ cache' = Put(cache, actualVersion, cachedPath)
           /\ dirs' = Put(dirs, cachedPath, dirs[extractedPath])
           /\ dsPath' = cachedPath
           /\ installedVersion' = actualVersion
           /\ pc' = "addPath"
           /\ UNCHANGED failedMsgs
        \/ /\ log' = Append(log, Ev("cacheDir", args, FALSE))
           /\ Fail(<<"cacheDir: copy failed">>)
           /\ UNCHANGED <<cache, dirs, dsPath, installedVersion>>
  /\ UNCHANGED <<env, inputs, info, actualVersion, archive, extractedPath,
                 targetPath, queue, files, madeDirs, searchPath, outputs, secrets>>


\* run puts the install directory on the PATH and publishes the version and
\* the path (index.ts 239-245)
run_addPath ==
  /\ pc = "addPath"
  /\ searchPath' = <<dsPath>> \o searchPath
  /\ outputs' = Put(Put(outputs, "version", installedVersion), "path", dsPath)
  /\ log' = log \o <<Ev("addPath", <<dsPath>>, TRUE),
                     Ev("setOutput", <<<<"version">>, installedVersion>>, TRUE),
                     Ev("setOutput", <<<<"path">>, dsPath>>, TRUE)>>
  /\ pc' = "config"
  /\ UNCHANGED <<env, inputs, info, actualVersion, archive, extractedPath, dsPath,
                 installedVersion, targetPath, queue, cache, dirs, files, madeDirs,
                 secrets, failedMsgs>>

\* run_config without the branch for a path given without content
run_config_noOverrideBranch ==
  /\ pc = "config"
  /\ \/ /\ inputs.configContent # <<>> /\ Trim(inputs.configContent) # <<>>
        /\ secrets' = secrets \cup {inputs.configContent}
        /\ log' = Append(log, Ev("setSecret", <<inputs.configContent>>, TRUE))
        /\ LET r == resolveConfigPath(inputs.configPathInput)
           IN \/ /\ r.ok
                 /\ targetPath' = r.path
                 /\ pc' = "mkdir"
                 /\ UNCHANGED failedMsgs
              \/ /\ ~r.ok
                 /\ Fail(r.err)
                 /\ UNCHANGED targetPath
        /\ UNCHANGED outputs
     \/ /\ ~(inputs.configContent # <<>> /\ Trim(inputs.configContent) # <<>>)
        /\ setOutput("config-path", <<>>)
        /\ pc' = "selfCheck"
        /\ UNCHANGED <<secrets, targetPath, failedMsgs>>
  /\ UNCHANGED <<env, inputs, info, actualVersion, archive, extractedPath, dsPath,
                 installedVersion, queue, cache, dirs, files, madeDirs, searchPath>>

\* run decides what to do about the configuration (index.ts 247-255); with
\* content it masks the content and enters writeConfigFile, which resolves
\* its target (index.ts 59-60)
run_config ==
  /\ pc = "config"
  /\ \/ /\ inputs.configContent # <<>> /\ Trim(inputs.configContent) # <<>>
        /\ secrets' = secrets \cup {inputs.configContent}
        /\ log' = Append(log, Ev("setSecret", <<inputs.configContent>>, TRUE))
        /\ LET r == resolveConfigPath(inputs.configPathInput)
           IN \/ /\ r.ok
                 /\ targetPath' = r.path
                 /\ pc' = "mkdir"
                 /\ UNCHANGED failedMsgs
              \/ /\ ~r.ok
                 /\ Fail(r.err)
                 /\ UNCHANGED targetPath
        /\ UNCHANGED outputs
     \/ /\ ~(inputs.configContent # <<>> /\ Trim(inputs.configContent) # <<>>)
        /\ inputs.configPathInput # <<>> /\ Trim(inputs.configPathInput) # <<>>
        /\ setOutput("config-path", resolveConfigPath(inputs.configPathInput).path)
        /\ pc' = "selfCheck"
        /\ UNCHANGED <<secrets, targetPath, failedMsgs>>
     \/ /\ ~(inputs.configContent # <<>> /\ Trim(inputs.configContent) # <<>>)
        /\ ~(inputs.configPathInput # <<>> /\ Trim(inputs.configPathInput) # <<>>)
        /\ setOutput("config-path", <<>>)
        /\ pc' = "selfCheck"
        /\ UNCHANGED <<secrets, targetPath, failedMsgs>>
  /\ UNCHANGED <<env, inputs, info, actualVersion, archive, extractedPath, dsPath,
                 installedVersion, queue, cache, dirs, files, madeDirs, searchPath>>

\* writeConfigFile creates the target's directory (index.ts 62)
writeConfigFile_mkdir ==
  /\ pc = "mkdir"
  /\ LET directory == pathDirname(targetPath)
     IN \/ /\ log' = Append(log, Ev("mkdir", <<directory>>, TRUE))
           /\ madeDirs' = madeDirs \cup {directory}
           /\ pc' = "writeFile"
           /\ UNCHANGED failedMsgs
        \/ /\ log' = Append(log, Ev("mkdir", <<directory>>, FALSE))
           /\ Fail(<<"mkdir: failed">>)
           /\ UNCHANGED madeDirs
  /\ UNCHANGED <<env, inputs, info, actualVersion, archive, extractedPath, dsPath,
                 installedVersion, targetPath, queue, cache, dirs, files,
                 searchPath, outputs, secrets>>

\* writeConfigFile writes the content (index.ts 63)
writeConfigFile_writeFile ==
  /\ pc = "writeFile"
  /\ \/ /\ log' = Append(log, Ev("writeFile", <<targetPath, inputs.configContent>>, TRUE))
        /\ files' = Put(files, targetPath,
                        [content |-> inputs.configContent, mode |-> "default"])
        /\ pc' = "chmodConfig"
        /\ UNCHANGED failedMsgs
     \/ /\ log' = Append(log, Ev("writeFile", <<targetPath, inputs.configContent>>, FALSE))
        /\ Fail(<<"writeFile: failed">>)
        /\ UNCHANGED files
  /\ UNCHANGED <<env, inputs, info, actualVersion, archive, extractedPath, dsPath,
                 installedVersion, targetPath, queue, cache, dirs, madeDirs,
                 searchPath, outputs, secrets>>

\* writeConfigFile restricts the file to its owner, except on Windows, and
\* returns the path, which run publishes (index.ts 65-69, 250-255)
writeConfigFile_chmod ==
  /\ pc = "chmodConfig"
  /\ LET published == Ev("setOutput", <<<<"config-path">>, targetPath>>, TRUE)
     IN \/ /\ osPlatform # "win32"
           /\ files' = [files EXCEPT ![targetPath].mode = "0600"]
           /\ outputs' = Put(outputs, "config-path", targetPath)
           /\ log' = log \o <<Ev("chmodFile", <<targetPath, <<"0600">>>>, TRUE), published>>
           /\ pc' = "selfCheck"
           /\ UNCHANGED failedMsgs
        \/ /\ osPlatform # "win32"
           /\ log' = Append(log, Ev("chmodFile", <<targetPath, <<"0600">>>>, FALSE))
           /\ Fail(<<"chmod: failed">>)
           /\ UNCHANGED <<files, outputs>>
        \/ /\ osPlatform = "win32"
           /\ outputs' = Put(outputs, "config-path", targetPath)
           /\ log' = Append(log, published)
           /\ pc' = "selfCheck"
           /\ UNCHANGED <<files, failedMsgs>>
  /\ UNCHANGED <<env, inputs, info, actualVersion, archive, extractedPath, dsPath,
                 installedVersion, targetPath, queue, cache, dirs, madeDirs,
                 searchPath, secrets>>

\* whether the binary in directory d can be started
runnable(d) ==
  /\ d \in DOMAIN dirs
  /\ dirs[d].hasBinary
  /\ osPlatform = "win32" \/ dirs[d].executable

\* run_selfCheck reporting the failure and going on to the plugins
run_selfCheck_continues ==
  /\ pc = "selfCheck"
  /\ LET dsBinary == pathJoin(dsPath, getPlatformInfo.binaryName)
     IN \/ /\ runnable(dsPath)
           /\ log' = Append(log, Ev("exec", <<dsBinary, <<"version">>>>, TRUE))
           /\ UNCHANGED failedMsgs
        \/ /\ log' = Append(log, Ev("exec", <<dsBinary, <<"version">>>>, FALSE))
           /\ failedMsgs' = Append(failedMsgs, <<"exec: the process failed">>)
  /\ pc' = "plugins"
  /\ UNCHANGED <<env, inputs, info, actualVersion, archive, extractedPath, dsPath,
                 installedVersion, targetPath, queue, cache, dirs, files, madeDirs,
                 searchPath, outputs, secrets>>

\* run starts '<binary> version' (index.ts 257-260); a binary that cannot be
\* started fails, one that can may still exit with an error
run_selfCheck ==
  /\ pc = "selfCheck"
  /\ LET dsBinary == pathJoin(dsPath, getPlatformInfo.binaryName)
     IN \/ /\ runnable(dsPath)
           /\ log' = Append(log, Ev("exec", <<dsBinary, <<"version">>>>, TRUE))
           /\ pc' = "plugins"
           /\ UNCHANGED failedMsgs
        \/ /\ log' = Append(log, Ev("exec", <<dsBinary, <<"version">>>>, FALSE))
           /\ Fail(<<"exec: the process failed">>)
  /\ UNCHANGED <<env, inputs, info, actualVersion, archive, extractedPath, dsPath,
                 installedVersion, targetPath, queue, cache, dirs, files, madeDirs,
                 searchPath, outputs, secrets>>

\* run calls installPlugins when there are plugins (index.ts 262-265), which
\* returns at once for a blank list and otherwise parses it (index.ts 196-203)
run_plugins ==
  /\ pc = "plugins"
  /\ \/ /\ inputs.plugins = <<>> \/ Trim(inputs.plugins) = <<>>
        /\ pc' = "done"
        /\ UNCHANGED queue
     \/ /\ inputs.plugins # <<>> /\ Trim(inputs.plugins) # <<>>
        /\ queue' = parsePlugins(inputs.plugins)
        /\ pc' = "pluginLoop"
  /\ UNCHANGED <<env, inputs, info, actualVersion, archive, extractedPath, dsPath,
                 installedVersion, targetPath, cache, dirs, files, madeDirs,
                 searchPath, outputs, secrets, failedMsgs, log>>

\* installPlugins_step leaving the loop at the first failure
installPlugins_step_break ==
  /\ pc = "pluginLoop"
  /\ queue # <<>>
  /\ LET plugin == Head(queue)
         dsBinary == pathJoin(dsPath, getPlatformInfo.binaryName)
         call == <<dsBinary>> \o pluginArgs(plugin, inputs.registry)
     IN \/ /\ runnable(dsPath)
           /\ log' = Append(log, Ev("exec", call, TRUE))
           /\ queue' = Tail(queue)
        \/ /\ log' = log \o <<Ev("exec", call, FALSE),
                              Ev("warning", <<<<"Failed to install plugin ">> \o plugin>>, TRUE)>>
           /\ queue' = <<>>
  /\ UNCHANGED <<env, pc, inputs, info, actualVersion, archive, extractedPath,
                 dsPath, installedVersion, targetPath, cache, dirs, files,
                 madeDirs, searchPath, outputs, secrets, failedMsgs>>

\* installPlugins_step without its try/catch: the failure reaches run
installPlugins_step_rethrow ==
  /\ pc = "pluginLoop"
  /\ queue # <<>>
  /\ LET plugin == Head(queue)
         dsBinary == pathJoin(dsPath, getPlatformInfo.binaryName)
         call == <<dsBinary>> \o pluginArgs(plugin, inputs.registry)
     IN \/ /\ runnable(dsPath)
           /\ log' = Append(log, Ev("exec", call, TRUE))
           /\ UNCHANGED <<pc, failedMsgs>>
        \/ /\ log' = Append(log, Ev("exec", call, FALSE))
           /\ Fail(<<"plugin install: the process failed">>)
  /\ queue' = Tail(queue)
  /\ UNCHANGED <<env, inputs, info, actualVersion, archive, extractedPath,
                 dsPath, installedVersion, targetPath, cache, dirs, files,
                 madeDirs, searchPath, outputs, secrets>>

\* installPlugins installs the next plugin (index.ts 205-220): a failure is
\* caught and reported as a warning
installPlugins_step ==
  /\ pc = "pluginLoop"
  /\ queue # <<>>
  /\ LET plugin == Head(queue)
         dsBinary == pathJoin(dsPath, getPlatformInfo.binaryName)
         call == <<dsBinary>> \o pluginArgs(plugin, inputs.registry)
     IN \/ /\ runnable(dsPath)
           /\ log' = Append(log, Ev("exec", call, TRUE))
        \/ /\ log' = log \o <<Ev("exec", call, FALSE),
                              Ev("warning", <<<<"Failed to install plugin ">> \o plugin>>, TRUE)>>
  /\ queue' = Tail(queue)
  /\ UNCHANGED <<env, pc, inputs, info, actualVersion, archive, extractedPath,
                 dsPath, installedVersion, targetPath, cache, dirs, files,
                 madeDirs, searchPath, outputs, secrets, failedMsgs>>

\* installPlugins returns and run ends (index.ts 220, 267)
installPlugins_return ==
  /\ pc = "pluginLoop"
  /\ queue = <<>>
  /\ pc' = "done"
  /\ UNCHANGED <<env, inputs, info, actualVersion, archive, extractedPath, dsPath,
                 installedVersion, targetPath, queue, cache, dirs, files, madeDirs,
                 searchPath, outputs, secrets, failedMsgs, log>>

Next ==
  \/ run_getInputs
  \/ downloadDS_getPlatformInfo
  \/ downloadDS_getOctokit
  \/ downloadDS_resolveVersion
  \/ downloadDS_find
  \/ downloadDS_download
  \/ downloadDS_extract
  \/ downloadDS_verify
  \/ downloadDS_chmod
  \/ downloadDS_cacheDir
  \/ run_addPath
  \/ run_config
  \/ writeConfigFile_mkdir
  \/ writeConfigFile_writeFile
  \/ writeConfigFile_chmod
  \/ run_selfCheck
  \/ run_plugins
  \/ installPlugins_step
  \/ installPlugins_return

Spec == Init /\ [][Next]_vars


\* ------------------------------------------------------ reading the log

HasOp(op) == \E i \in 1..Len(log) : log[i].op = op
CountOp(op) == Cardinality({i \in 1..Len(log) : log[i].op = op})

IsPluginExec(e) == e.op = "exec" /\ Len(e.args) >= 2 /\ e.args[2] = <<"plugin">>
IsSelfCheck(e) == e.op = "exec" /\ Len(e.args) >= 2 /\ e.args[2] = <<"version">>
PluginExecs == SelectSeq(log, IsPluginExec)

NetworkOps == {"getLatestRelease", "downloadTool"}
InstallOps == {"extractTar", "extractZip", "chmod", "cacheDir"}

\* the inputs as getInput hands them over
RequestedVersion == Trim(env.input.version)
ConfigGiven == Trim(env.input.config)
ConfigPathGiven == Trim(env.input["config-path"])
RegistryGiven == Trim(env.input.registry)

\* downloadDS has returned to run
Returned == dsPath # <<>>

\* --------------------------------------------------------------------- C1

\* C1: when the version is pinned and the tool cache holds it as the run
\* starts, the run calls neither the release index nor the download, does no
\* extraction, chmod or cache insertion and leaves the cache as it was; once
\* the cache lookup has run, downloadDS has returned the cached directory and
\* cache-hit is 'true'.  The lookup is only missed by a run that failed
\* before it, at platform resolution or at the API client.
C1_CachedPinnedIsPureRead ==
  (pc # "start" /\ RequestedVersion \notin {<<>>, LATEST}
     /\ RequestedVersion \in env.cached)
  => /\ \A i \in 1..Len(log) : log[i].op \notin NetworkOps \cup InstallOps
     /\ cache = InitialCache(env)
     /\ dirs = InitialDirs(env)
     /\ pc \notin {"download", "extract", "verify", "chmod", "cacheDir"}
     /\ HasOp("find") =>
          /\ Returned
          /\ dsPath = cachePath(RequestedVersion)
          /\ "cache-hit" \in DOMAIN outputs
          /\ outputs["cache-hit"] = <<"true">>
     /\ (pc = "failed" /\ ~HasOp("find")) =>
          Head(failedMsgs[1]) \in {"Unsupported platform: ", "Unsupported architecture: ",
                                   "Parameter token or opts.auth is required"}

C1_Witness ==
  /\ pc = "done"
  /\ RequestedVersion = V1
  /\ V1 \in env.cached
  /\ dsPath = cachePath(V1)
  /\ outputs["cache-hit"] = <<"true">>

\* ---------------------------------------------------------------- C2, C3

\* The plugin names the 'plugins' input asks for, read off the raw input one
\* atom at a time: an entry ends at a comma or at the end, and counts when
\* something is left of it after trimming.
RECURSIVE EntriesOf(_, _)
EntriesOf(s, cur) ==
  LET kept == IF Trim(cur) = <<>> THEN <<>> ELSE <<Trim(cur)>>
  IN IF s = <<>> THEN kept
     ELSE IF Head(s) = "," THEN kept \o EntriesOf(Tail(s), <<>>)
     ELSE EntriesOf(Tail(s), Append(cur, Head(s)))

ExpectedPlugins == EntriesOf(env.input.plugins, <<>>)

\* the call expected for the i-th plugin
ExpectedCall(i) ==
  <<dsPath \o <<Sep>> \o (IF env.platform = "win32" THEN <<"ds.exe">> ELSE <<"ds">>),
    <<"plugin">>, <<"install">>, ExpectedPlugins[i]>>
    \o (IF RegistryGiven # <<>> THEN <<<<"--registry">>, RegistryGiven>> ELSE <<>>)

FailedPluginExecs == {i \in 1..Len(PluginExecs) : ~PluginExecs[i].ok}

\* C2: whichever plugin installations fail, every plugin of the list is still
\* attempted (attempts made plus plugins waiting is always the whole list,
\* and all are made when run ends), each failure gives one warning, and no
\* run that attempted a plugin installation calls setFailed.
C2_PluginFailuresAreNotFatal ==
  /\ pc = "pluginLoop" =>
       Len(PluginExecs) + Len(queue) = Len(ExpectedPlugins)
  /\ PluginExecs # <<>> =>
       /\ pc \in {"pluginLoop", "done"}
       /\ failedMsgs = <<>>
  /\ pc = "done" =>
       /\ Len(PluginExecs) = Len(ExpectedPlugins)
       /\ failedMsgs = <<>>
  /\ CountOp("warning") = Cardinality(FailedPluginExecs)

C2_Witness ==
  /\ pc = "done"
  /\ Len(PluginExecs) = 3
  /\ PluginExecs[1].ok /\ ~PluginExecs[2].ok /\ PluginExecs[3].ok
  /\ failedMsgs = <<>>

\* C3: the plugin installations made are, in order, the calls
\* '<binary> plugin install <name>' for the entries of the plugins input
\* that are non-empty after trimming, duplicates included, with
\* '--registry <registry>' appended exactly when the registry input is not
\* blank; a run that ends well has made all of them, none for a blank list.
C3_OneCallPerEntryInOrder ==
  /\ Len(PluginExecs) <= Len(ExpectedPlugins)
  /\ \A i \in 1..Len(PluginExecs) : PluginExecs[i].args = ExpectedCall(i)
  /\ pc = "pluginLoop" =>
       queue = SubSeq(ExpectedPlugins, Len(PluginExecs) + 1, Len(ExpectedPlugins))
  /\ pc = "done" => Len(PluginExecs) = Len(ExpectedPlugins)

C3_Witness ==
  /\ pc = "done"
  /\ env.input.plugins = <<"a", ",", " ", ",", "a">>
  /\ env.input.registry = <<"reg.example">>
  /\ Len(PluginExecs) = 2
  /\ PluginExecs[1].args = PluginExecs[2].args
  /\ PluginExecs[2].args[4] = <<"a">>
  /\ PluginExecs[2].args[6] = <<"reg.example">>

\* --------------------------------------------------------------------- C4

\* the step of run that raises the error with message msg
FatalStep(msg) ==
  LET h == Head(msg)
  IN CASE h \in {"Unsupported platform: ", "Unsupported architecture: "} -> "platform resolution"
       [] h = "Parameter token or opts.auth is required" -> "API client"
       [] h = "getLatestRelease: request failed" -> "version resolution"
       [] h = "Failed to download DS: " -> "download"
       [] h \in {"extractTar", "extractZip"} -> "extraction"
       [] h = "Binary not found at " -> "binary verification"
       [] h = "chmod: the process failed" -> "chmod"
       [] h = "cacheDir: copy failed" -> "cache insertion"
       [] h = "APPDATA environment variable is not set; cannot resolve DS config path"
            -> "config path resolution"
       [] h \in {"mkdir: failed", "writeFile: failed", "chmod: failed"} -> "config write"
       [] h = "exec: the process failed" -> "self-check"
       [] OTHER -> "another step"

ListedFatalSteps ==
  {"version resolution", "download", "extraction", "binary verification", "self-check"}

\* C4 as stated: the run reports failure only when version resolution,
\* download, extraction, binary verification or the self-check fails.
C4_OnlyListedStepsFail ==
  pc = "failed" => FatalStep(failedMsgs[1]) \in ListedFatalSteps

\* C4 as amended: the run reports failure only when a step before the plugin
\* installations fails: platform resolution, the API client's construction,
\* version resolution, download, extraction, binary verification, chmod of
\* the binary, cache insertion, config path resolution, the config write, or
\* the self-check; setFailed is never called in a run that got to installing
\* plugins.
C4_OnlyFatalStepsFail ==
  /\ failedMsgs # <<>> => pc = "failed"
  /\ pc = "failed" =>
       /\ FatalStep(failedMsgs[1]) \in
            ListedFatalSteps \cup
              {"platform resolution", "API client", "chmod", "cache insertion",
               "config path resolution", "config write"}
       /\ PluginExecs = <<>>

C4_Witness ==
  /\ pc = "failed"
  /\ FatalStep(failedMsgs[1]) = "config write"
  /\ HasOp("writeFile")

\* --------------------------------------------------------------------- C5

AllOutputs == {"version", "path", "cache-hit", "config-path"}

\* C5 as stated: when the run has ended, either downloadDS returned with the
\* binary in the install directory, executable (off Windows) and cached
\* under the resolved version, or the run failed and no output is set.
C5_NoPartialSuccess ==
  pc \in {"done", "failed"} =>
    \/ /\ Returned
       /\ dsPath \in DOMAIN dirs
       /\ dirs[dsPath].hasBinary
       /\ env.platform = "win32" \/ dirs[dsPath].executable
       /\ installedVersion \in DOMAIN cache
       /\ cache[installedVersion] = dsPath
    \/ /\ pc = "failed"
       /\ DOMAIN outputs \cap AllOutputs = {}

\* C5 as amended: either downloadDS returns a directory the cache holds under
\* the resolved version - after a cache miss with the binary in it and
\* executable (off Windows), after a cache hit the entry as it was found, not
\* looked into - or the run reports failure with none of version, path and
\* config-path set, and cache-hit either unset or 'false'.
C5_InstallAllOrNothing ==
  /\ pc = "done" => Returned
  /\ Returned =>
       /\ installedVersion \in DOMAIN cache
       /\ cache[installedVersion] = dsPath
       /\ dsPath \in DOMAIN dirs
       /\ "cache-hit" \in DOMAIN outputs
       /\ outputs["cache-hit"] = <<"false">> =>
            /\ dirs[dsPath].hasBinary
            /\ env.platform = "win32" \/ dirs[dsPath].executable
       /\ outputs["cache-hit"] = <<"true">> =>
            /\ installedVersion \in env.cached
            /\ dirs[dsPath] = InitialDirs(env)[dsPath]
  /\ (pc = "failed" /\ ~Returned) =>
       /\ DOMAIN outputs \subseteq {"cache-hit"}
       /\ "cache-hit" \in DOMAIN outputs => outputs["cache-hit"] = <<"false">>

C5_Witness ==
  /\ pc = "failed"
  /\ ~Returned
  /\ HasOp("downloadTool")
  /\ DOMAIN outputs = {"cache-hit"}
  /\ outputs["cache-hit"] = <<"false">>

\* --------------------------------------------------------------------- C6

\* C6: the config file is written only when the config input is not blank,
\* and at most once; once run has published config-path: with content the
\* file was written, holds the content, and the output is its absolute path;
\* with blank content and a path given nothing was written or created and
\* the output is resolveConfigPath of that path; with both blank the output
\* is the empty string.
C6_ConfigWrittenIffGiven ==
  /\ CountOp("mkdir") <= 1 /\ CountOp("writeFile") <= 1 /\ CountOp("chmodFile") <= 1
  /\ ConfigGiven = <<>> =>
       /\ DOMAIN files = {} /\ madeDirs = {} /\ secrets = {}
       /\ \A i \in 1..Len(log) :
            log[i].op \notin {"setSecret", "mkdir", "writeFile", "chmodFile"}
  /\ pc \in {"selfCheck", "plugins", "pluginLoop", "done"} =>
       "config-path" \in DOMAIN outputs
  /\ "config-path" \in DOMAIN outputs =>
       LET out == outputs["config-path"]
       IN IF ConfigGiven # <<>>
          THEN /\ \E i \in 1..Len(log) :
                    /\ log[i].op = "writeFile" /\ log[i].ok
                    /\ log[i].args = <<out, ConfigGiven>>
               /\ DOMAIN files = {out}
               /\ files[out].content = ConfigGiven
               /\ pathIsAbsolute(out)
               /\ out = resolveConfigPath(ConfigPathGiven).path
          ELSE IF ConfigPathGiven # <<>>
          THEN /\ out = resolveConfigPath(ConfigPathGiven).path
               /\ pathIsAbsolute(out)
          ELSE out = <<>>

C6_Witness ==
  /\ pc = "done"
  /\ ConfigGiven = <<>>
  /\ env.input["config-path"] = <<"~", "/", "ds.yaml">>
  /\ env.platform = "linux"
  /\ outputs["config-path"] = <<"/", "home", "/", "runner", "/", "ds.yaml">>
  /\ DOMAIN files = {}
  /\ madeDirs = {}

\* --------------------------------------------------------------------- C7

\* C7: on an operating system outside {linux, darwin, win32} or a CPU outside
\* {x64, arm64} the run fails with the unsupported-platform or
\* unsupported-architecture message, and no call to the outside (release
\* index, download, cache lookup, extraction, config write, PATH) is made.
C7_UnsupportedFailsFirst ==
  (env.platform \notin {"linux", "darwin", "win32"} \/ env.arch \notin {"x64", "arm64"})
  => /\ log = <<>>
     /\ cache = InitialCache(env) /\ dirs = InitialDirs(env)
     /\ DOMAIN files = {} /\ madeDirs = {} /\ searchPath = <<>>
     /\ DOMAIN outputs = {} /\ secrets = {}
     /\ pc \in {"start", "getPlatformInfo", "failed"}
     /\ pc = "failed" =>
          /\ Len(failedMsgs) = 1
          /\ failedMsgs[1] \in {<<"Unsupported platform: ", env.platform>>,
                                <<"Unsupported architecture: ", env.arch>>}

C7_Witness ==
  /\ pc = "failed"
  /\ env.platform = "linux"
  /\ env.arch = "ia32"
  /\ failedMsgs = <<<<"Unsupported architecture: ", "ia32">>>>

\* --------------------------------------------------------------------- C8

\* C8: the release index is asked at most once, and only for the token
\* 'latest' (an empty input is 'latest'); once the version is settled it has
\* been asked exactly when the token is 'latest'.  Any other token is itself
\* the key of the cache lookup and of the cache insertion, the version in
\* the download address and the output 'version'.
C8_LookupOnlyForLatest ==
  LET askedIndex == CountOp("getLatestRelease")
      wantsLatest == RequestedVersion \in {<<>>, LATEST}
  IN /\ askedIndex <= 1
     /\ askedIndex = 1 => wantsLatest
     /\ (pc = "find" \/ HasOp("find")) => (askedIndex = 1 <=> wantsLatest)
     /\ ~wantsLatest =>
          /\ \A i \in 1..Len(log) :
               /\ log[i].op = "find" => log[i].args = <<TOOL, RequestedVersion>>
               /\ log[i].op = "downloadTool" =>
                    log[i].args[1] =
                      <<"https://github.com/", "delivery-station", "/", "ds",
                        "/releases/download/">> \o RequestedVersion \o <<"/">>
                        \o info.fileName
               /\ log[i].op = "cacheDir" => log[i].args[3] = RequestedVersion
          /\ "version" \in DOMAIN outputs => outputs["version"] = RequestedVersion
          /\ \A v \in DOMAIN cache : v \in env.cached \/ v = RequestedVersion

C8_Witness ==
  /\ pc = "done"
  /\ RequestedVersion = <<"LATEST">>
  /\ HasOp("downloadTool")
  /\ ~HasOp("getLatestRelease")
  /\ outputs["version"] = <<"LATEST">>
  /\ <<"LATEST">> \in DOMAIN cache

\* --------------------------------------------------------------------- C9

\* the step of run a call to the outside belongs to
StepOfCall(e) ==
  CASE e.op = "getLatestRelease" -> "version resolution"
    [] e.op = "downloadTool" -> "download"
    [] e.op \in {"extractTar", "extractZip"} -> "extraction"
    [] e.op = "existsSync" -> "binary verification"
    [] e.op = "chmod" -> "chmod"
    [] e.op = "cacheDir" -> "cache insertion"
    [] e.op = "setSecret" -> "config path resolution"
    [] e.op \in {"mkdir", "writeFile", "chmodFile"} -> "config write"
    [] IsSelfCheck(e) -> "self-check"
    [] OTHER -> "another step"

\* C9: setFailed is called at most once, and exactly when run ends failed;
\* a call to the outside that throws, other than a plugin installation, is
\* the last call the run makes and its error is the one reported; an error
\* raised without a call (platform, API client, missing binary, missing
\* APPDATA) is reported with nothing done after the step that raised it; a
\* failed run has attempted no plugin installation and takes no further step.
C9_FirstErrorEndsRun ==
  /\ Len(failedMsgs) <= 1
  /\ pc = "failed" <=> Len(failedMsgs) = 1
  /\ \A i \in 1..Len(log) :
       (~log[i].ok /\ ~IsPluginExec(log[i])) =>
         /\ i = Len(log)
         /\ pc = "failed"
         /\ FatalStep(failedMsgs[1]) = StepOfCall(log[i])
  /\ pc = "failed" =>
       /\ PluginExecs = <<>>
       /\ queue = <<>>
       /\ ~ENABLED Next
       /\ LET step == FatalStep(failedMsgs[1])
          IN IF step \in {"platform resolution", "API client"}
             THEN log = <<>>
             ELSE /\ log # <<>>
                  /\ StepOfCall(log[Len(log)]) = step
                  /\ log[Len(log)].ok <=>
                       step \in {"binary verification", "config path resolution"}

C9_Witness ==
  /\ pc = "failed"
  /\ FatalStep(failedMsgs[1]) = "self-check"
  /\ ExpectedPlugins # <<>>
  /\ PluginExecs = <<>>
  /\ IsSelfCheck(log[Len(log)])

\* -------------------------------------------------------------------- C10

\* the place of a call in the order of run's steps
Rank(e) ==
  CASE e.op = "getLatestRelease" -> 1
    [] e.op = "find" -> 2
    [] e.op = "setOutput" /\ e.args[1] = <<"cache-hit">> -> 3
    [] e.op = "downloadTool" -> 4
    [] e.op \in {"extractTar", "extractZip"} -> 5
    [] e.op = "existsSync" -> 6
    [] e.op = "chmod" -> 7
    [] e.op = "cacheDir" -> 8
    [] e.op = "addPath" -> 9
    [] e.op = "setOutput" /\ e.args[1] = <<"version">> -> 10
    [] e.op = "setOutput" /\ e.args[1] = <<"path">> -> 11
    [] e.op = "setSecret" -> 12
    [] e.op = "mkdir" -> 13
    [] e.op = "writeFile" -> 14
    [] e.op = "chmodFile" -> 15
    [] e.op = "setOutput" /\ e.args[1] = <<"config-path">> -> 16
    [] IsSelfCheck(e) -> 17
    [] OTHER -> 18

IsPluginStep(e) == IsPluginExec(e) \/ e.op = "warning"

\* C10: the calls of a run come in the order version lookup, cache lookup,
\* download, extraction, look for the binary, chmod, cache insertion, PATH
\* and outputs, secret masking, config write, self-check, plugin
\* installations; each but the plugin installations at most once, and each
\* returned before the next is made.  The cache insertion comes after the
\* binary was found, the plugin installations after a self-check that
\* succeeded, and a run that ends well has made every step its inputs and
\* the cache call for.
C10_StepsInOrder ==
  /\ \A i \in 1..(Len(log) - 1) :
       \/ Rank(log[i]) < Rank(log[i + 1])
       \/ IsPluginStep(log[i]) /\ IsPluginStep(log[i + 1])
  /\ \A i \in 1..Len(log) : IsPluginStep(log[i]) <=> Rank(log[i]) = 18
  /\ \A i \in 1..(Len(log) - 1) : log[i].ok \/ IsPluginExec(log[i])
  /\ HasOp("cacheDir") =>
       /\ HasOp("existsSync")
       /\ dirs[extractedPath].hasBinary
  /\ PluginExecs # <<>> => \E i \in 1..Len(log) : IsSelfCheck(log[i]) /\ log[i].ok
  /\ HasOp("writeFile") => HasOp("setSecret")
  /\ pc = "done" =>
       /\ HasOp("find") /\ HasOp("addPath")
       /\ \E i \in 1..Len(log) : IsSelfCheck(log[i])
       /\ LET miss == outputs["cache-hit"] = <<"false">>
          IN /\ miss <=> HasOp("downloadTool")
             /\ miss <=> (HasOp("extractTar") \/ HasOp("extractZip"))
             /\ miss <=> HasOp("existsSync")
             /\ miss <=> HasOp("cacheDir")
             /\ (miss /\ env.platform # "win32") <=> HasOp("chmod")
       /\ ConfigGiven # <<>> <=> HasOp("setSecret")
       /\ ConfigGiven # <<>> <=> HasOp("writeFile")

C10_Witness ==
  /\ pc = "done"
  /\ HasOp("downloadTool")
  /\ HasOp("chmod")
  /\ HasOp("cacheDir")
  /\ HasOp("writeFile")
  /\ HasOp("chmodFile")
  /\ PluginExecs # <<>>

====
